---- MODULE Spec2Model ----
(***************************************************************************)
(* Search providers of the QWC2 demo application (js/SearchProviders.js)   *)
(* together with the search session they deliver into.                     *)
(*                                                                         *)
(* Values: a JavaScript object is a record that has exactly the fields the *)
(* object has (a missing field is a missing record field); an array is a   *)
(* sequence; a text handed to a regular expression is a sequence of        *)
(* one-character strings.  Display strings (text, title, label) are not    *)
(* modelled.                                                               *)
(***************************************************************************)
EXTENDS Integers, Sequences, FiniteSets, TLC

VARIABLES
    requestId,   \* the current request id of the session, 0 before the first search
    results,     \* the accumulator: the merged groups shown to the caller
    inflight,    \* the onSearch / getMoreResults invocations whose network call is open
    dispatched,  \* the deliveries made by the last step, in order
    settled,     \* the onSearch / getMoreResults invocations completed by the last step
    geometry,    \* the getResultGeometry invocations whose network call is open
    resolved,    \* the getResultGeometry invocations completed by the last step
    mores,       \* the number of getMoreResults invocations made so far
    parsed,      \* input and output of coordinatesSearch run on its own
    merged       \* two deliveries of one request and their merge in both arrival orders

vars == <<requestId, results, inflight, dispatched, settled, geometry, resolved, mores, parsed,
          merged>>

(***************************************************************************)
(* Bounds of the model.                                                    *)
(***************************************************************************)
MaxRequests == 2
MaxMore == 1
MaxGeometry == 1
MaxTextLen == 5

Has(obj, field) == field \in DOMAIN obj

(***************************************************************************)
(* Numbers with decimals: m / 10^e, kept canonical (no trailing zero in    *)
(* the fraction) so that equal numbers are equal values.                   *)
(***************************************************************************)
RECURSIVE Pow10(_)
Pow10(e) == IF e = 0 THEN 1 ELSE 10 * Pow10(e - 1)

RECURSIVE Num(_, _)
Num(m, e) == IF e > 0 /\ m % 10 = 0 THEN Num(m \div 10, e - 1) ELSE [m |-> m, e |-> e]

NumGeq(a, k) == a.m >= k * Pow10(a.e)

NumLeq(a, k) == a.m <= k * Pow10(a.e)

(***************************************************************************)
(* The pattern of coordinatesSearch: optional white space, a number, one   *)
(* comma or white space character, optional white space, a number,         *)
(* optional white space, end of text.  A number is an optional sign, one   *)
(* or more digits, an optional point, zero or more digits.  The pattern is *)
(* deterministic, so it is matched by the automaton below; the automaton   *)
(* gathers the digits of both captures: number k is m[k] / 10^e[k],        *)
(* negative when neg[k].                                                   *)
(***************************************************************************)
Digits == <<"0", "1", "2", "3", "4", "5", "6", "7", "8", "9">>

IsDigit(c) == \E d \in 1..10 : Digits[d] = c

DigitVal(c) == (CHOOSE d \in 1..10 : Digits[d] = c) - 1

IsSpace(c) == c \in {" ", "\t"}

IsSign(c) == c \in {"+", "-"}

ScanStart ==
    [at |-> "lead", k |-> 1, neg |-> <<FALSE, FALSE>>, m |-> <<0, 0>>, e |-> <<0, 0>>]

AddDigit(st, c, fraction) ==
    [st EXCEPT !.m[st.k] = 10 * @ + DigitVal(c),
               !.e[st.k] = IF fraction THEN @ + 1 ELSE @]

ScanStep(st, c) ==
    CASE st.at = "lead" ->
            IF IsSpace(c) THEN st
            ELSE IF IsSign(c) THEN [st EXCEPT !.at = "sign", !.neg[1] = (c = "-")]
            ELSE IF IsDigit(c) THEN [AddDigit(st, c, FALSE) EXCEPT !.at = "int"]
            ELSE [st EXCEPT !.at = "fail"]
      [] st.at = "sign" ->
            IF IsDigit(c) THEN [AddDigit(st, c, FALSE) EXCEPT !.at = "int"]
            ELSE [st EXCEPT !.at = "fail"]
      [] st.at = "int" ->
            IF IsDigit(c) THEN AddDigit(st, c, FALSE)
            ELSE IF c = "." THEN [st EXCEPT !.at = "frac"]
            ELSE IF st.k = 1 /\ (c = "," \/ IsSpace(c)) THEN [st EXCEPT !.at = "sep", !.k = 2]
            ELSE IF st.k = 2 /\ IsSpace(c) THEN [st EXCEPT !.at = "trail"]
            ELSE [st EXCEPT !.at = "fail"]
      [] st.at = "frac" ->
            IF IsDigit(c) THEN AddDigit(st, c, TRUE)
            ELSE IF st.k = 1 /\ (c = "," \/ IsSpace(c)) THEN [st EXCEPT !.at = "sep", !.k = 2]
            ELSE IF st.k = 2 /\ IsSpace(c) THEN [st EXCEPT !.at = "trail"]
            ELSE [st EXCEPT !.at = "fail"]
      [] st.at = "sep" ->
            IF IsSpace(c) THEN st
            ELSE IF IsSign(c) THEN [st EXCEPT !.at = "sign", !.neg[2] = (c = "-")]
            ELSE IF IsDigit(c) THEN [AddDigit(st, c, FALSE) EXCEPT !.at = "int"]
            ELSE [st EXCEPT !.at = "fail"]
      [] st.at = "trail" ->
            IF IsSpace(c) THEN st ELSE [st EXCEPT !.at = "fail"]
      [] OTHER -> st

RECURSIVE Scan(_, _, _)
Scan(t, i, st) == IF i > Len(t) THEN st ELSE Scan(t, i + 1, ScanStep(st, t[i]))

Matched(st) == st.k = 2 /\ st.at \in {"int", "frac", "trail"}

\* parseFloat of capture k
Capture(st, k) == Num(IF st.neg[k] THEN 0 - st.m[k] ELSE st.m[k], st.e[k])

MatchCoordinates(t) == Scan(t, 1, ScanStart)

(***************************************************************************)
(* coordinatesSearch: the items and the delivery.                          *)
(***************************************************************************)
DisplayCrs(searchOptions) ==
    IF Has(searchOptions, "displaycrs") /\ searchOptions.displaycrs # "" THEN searchOptions.displaycrs ELSE "EPSG:4326"

CoordItem(n, x, y, crs) ==
    [id |-> "coord" \o ToString(n), x |-> x, y |-> y, crs |-> crs, bbox |-> <<x, y, x, y>>]

\* the three conditional pushes, in order
PushDisplay(items, x, y, displaycrs) ==
    IF displaycrs # "EPSG:4326" THEN Append(items, CoordItem(Len(items), x, y, displaycrs))
    ELSE items

InLonLat(x, y) == NumGeq(x, -180) /\ NumLeq(x, 180) /\ NumGeq(y, -90) /\ NumLeq(y, 90)

PushLonLat(items, x, y) ==
    IF InLonLat(x, y) THEN Append(items, CoordItem(Len(items), x, y, "EPSG:4326"))
    ELSE items

InLatLon(x, y) == NumGeq(x, -90) /\ NumLeq(x, 90) /\ NumGeq(y, -180) /\ NumLeq(y, 180)

\* variant: the swapped pair is a candidate even when both numbers are equal
PushLatLonOfEqual(items, x, y) ==
    IF InLatLon(x, y) THEN Append(items, CoordItem(Len(items), y, x, "EPSG:4326"))
    ELSE items

PushLatLon(items, x, y) ==
    IF InLatLon(x, y) /\ x # y THEN Append(items, CoordItem(Len(items), y, x, "EPSG:4326"))
    ELSE items

CoordItems(x, y, displaycrs) ==
    PushLatLon(PushLonLat(PushDisplay(<<>>, x, y, displaycrs), x, y), x, y)

MatchedItems(matches, displaycrs) ==
    IF Matched(matches)
    THEN CoordItems(Capture(matches, 1), Capture(matches, 2), displaycrs)
    ELSE <<>>

coordinatesItems(text, searchOptions) ==
    MatchedItems(MatchCoordinates(text), DisplayCrs(searchOptions))

coordinatesResults(text, searchOptions) ==
    LET items == coordinatesItems(text, searchOptions)
    IN  IF Len(items) > 0 THEN <<[id |-> "coords", items |-> items]>> ELSE <<>>

\* addSearchResults({data, provider, reqId}, append): the action handed to dispatch
addSearchResults(data, provider, reqId, incremental) ==
    [data |-> data, provider |-> provider, reqId |-> reqId, incremental |-> incremental]

coordinatesSearch(text, reqId, searchOptions) ==
    addSearchResults(coordinatesResults(text, searchOptions), "coordinates", reqId, "true")

(***************************************************************************)
(* Payload handling.  A normalizer gives [threw |-> TRUE] when evaluating  *)
(* it raises a TypeError (a property read from undefined or null), and     *)
(* [threw |-> FALSE, action |-> the addSearchResults action] otherwise.    *)
(***************************************************************************)
Undefined == "undefined"

Get(obj, field) == IF Has(obj, field) THEN obj[field] ELSE Undefined

Threw == [threw |-> TRUE]

Returned(action) == [threw |-> FALSE, action |-> action]

\* obj.results || []
ResultsOf(obj) == IF Has(obj, "results") THEN obj.results ELSE <<>>

\* 0.5 * (a + b); the payloads of the model carry even coordinates
Mid(a, b) == (a + b) \div 2

\* index of the group with this id, 0 when there is none
GroupIndex(groups, id) ==
    IF \E k \in 1..Len(groups) : groups[k].id = id
    THEN CHOOSE k \in 1..Len(groups) : groups[k].id = id
    ELSE 0

PushItem(groups, k, item) ==
    [groups EXCEPT ![k] = [@ EXCEPT !.items = Append(@, item)]]

(***************************************************************************)
(* geoadmin.  A geom_st_box2d string is [match |-> whether it has the form *)
(* BOX(xmin ymin,xmax ymax), box |-> the four numbers, wgs |-> what        *)
(* CoordinatesUtils.reprojectBbox gives for them].                         *)
(***************************************************************************)
reprojectBbox(bboxstr) == bboxstr.wgs

\* [threw |-> TRUE], or [threw |-> FALSE, null |-> TRUE], or
\* [threw |-> FALSE, null |-> FALSE, value |-> the bbox]
parseItemBBox(attrs) ==
    IF ~Has(attrs, "geom_st_box2d") THEN [threw |-> FALSE, null |-> TRUE]
    ELSE LET bboxstr == attrs.geom_st_box2d
         IN  IF ~bboxstr.match
             THEN Threw     \* matches is null: the length test is skipped, matches[1] raises
             ELSE [threw |-> FALSE, null |-> FALSE, value |-> reprojectBbox(bboxstr)]

geoAdminItem(entry, bbox) ==
    LET x == Get(entry.attrs, "lon")
        y == Get(entry.attrs, "lat")
    IN  [id |-> Get(entry, "id"), x |-> x, y |-> y, crs |-> "EPSG:4326",
         bbox |-> IF bbox.null THEN <<x, y, x, y>> ELSE bbox.value,
         provider |-> "geoadmin"]

RECURSIVE geoAdminGroups(_, _, _)
geoAdminGroups(entries, i, resultGroups) ==
    IF i > Len(entries) THEN [threw |-> FALSE, groups |-> resultGroups]
    ELSE LET entry == entries[i]
         IN  IF ~Has(entry, "attrs") THEN Threw
             ELSE LET origin == Get(entry.attrs, "origin")
                      withGroup == IF GroupIndex(resultGroups, origin) = 0
                                   THEN Append(resultGroups, [id |-> origin, items |-> <<>>])
                                   ELSE resultGroups
                      bbox == parseItemBBox(entry.attrs)
                  IN  IF bbox.threw THEN Threw
                      ELSE geoAdminGroups(entries, i + 1,
                               PushItem(withGroup, GroupIndex(withGroup, origin),
                                        geoAdminItem(entry, bbox)))

geoAdminLocationSearchResults(obj, reqId) ==
    LET r == geoAdminGroups(ResultsOf(obj), 1, <<>>)
    IN  IF r.threw THEN Threw
        ELSE Returned(addSearchResults(r.groups, "geoadmin", reqId, "true"))

(***************************************************************************)
(* uster and wolfsburg: a flat list in which an entry without bbox opens a *)
(* group and an entry with bbox is an item of the group opened last.       *)
(***************************************************************************)
\* variant: the item names another provider than the one that delivers it
usterItemOfWolfsburg(entry, counter) ==
    [id |-> "usterresult" \o ToString(counter),
     searchtable |-> Get(entry, "searchtable"),
     bbox |-> entry.bbox,
     x |-> Mid(entry.bbox[1], entry.bbox[3]),
     y |-> Mid(entry.bbox[2], entry.bbox[4]),
     crs |-> "EPSG:21781", provider |-> "wolfsburg"]

usterItem(entry, counter) ==
    [id |-> "usterresult" \o ToString(counter),
     searchtable |-> Get(entry, "searchtable"),
     bbox |-> entry.bbox,
     x |-> Mid(entry.bbox[1], entry.bbox[3]),
     y |-> Mid(entry.bbox[2], entry.bbox[4]),
     crs |-> "EPSG:21781", provider |-> "uster"]

wolfsburgItem(entry, counter) ==
    [id |-> "wolfsburgresult" \o ToString(counter),
     searchtable |-> Get(entry, "searchtable"),
     oid |-> Get(entry, "id"),
     bbox |-> entry.bbox,
     x |-> Mid(entry.bbox[1], entry.bbox[3]),
     y |-> Mid(entry.bbox[2], entry.bbox[4]),
     crs |-> "EPSG:25832", provider |-> "wolfsburg"]

FlatItem(provider, entry, counter) ==
    IF provider = "uster" THEN usterItem(entry, counter) ELSE wolfsburgItem(entry, counter)

\* a null entry is [null |-> TRUE]: it has no fields to read, entry.bbox raises
RECURSIVE FlatGroups(_, _, _, _, _, _)
FlatGroups(provider, entries, i, groups, groupcounter, counter) ==
    IF i > Len(entries) THEN [threw |-> FALSE, groups |-> groups]
    ELSE LET entry == entries[i]
         IN  IF Has(entry, "null") THEN Threw
             ELSE IF ~Has(entry, "bbox")
             THEN FlatGroups(provider, entries, i + 1,
                      Append(groups, [id |-> provider \o "group" \o ToString(groupcounter),
                                       items |-> <<>>]),
                      groupcounter + 1, counter)
             ELSE IF Len(groups) > 0
             THEN FlatGroups(provider, entries, i + 1,
                      PushItem(groups, Len(groups), FlatItem(provider, entry, counter)),
                      groupcounter, counter + 1)
             ELSE FlatGroups(provider, entries, i + 1, groups, groupcounter, counter)

usterSearchResults(obj, reqId) ==
    LET r == FlatGroups("uster", ResultsOf(obj), 1, <<>>, 0, 0)
    IN  IF r.threw THEN Threw
        ELSE Returned(addSearchResults(r.groups, "uster", reqId, "true"))

wolfsburgSearchResults(obj, reqId) ==
    LET r == FlatGroups("wolfsburg", ResultsOf(obj), 1, <<>>, 0, 0)
    IN  IF r.threw THEN Threw
        ELSE Returned(addSearchResults(r.groups, "wolfsburg", reqId, "true"))

(***************************************************************************)
(* glarus: groups of features, a "more" marker on a group that has more    *)
(* features than the limit of the search.                                  *)
(***************************************************************************)
glarusLimit == 9

NoLimit == -1

glarusItem(item, category) ==
    [id |-> Get(item, "id"),
     bbox |-> item.bbox,
     x |-> Mid(item.bbox[1], item.bbox[3]),
     y |-> Mid(item.bbox[2], item.bbox[4]),
     crs |-> "EPSG:2056", provider |-> "glarus", category |-> category]

glarusMoreItem(idcounter, category) ==
    [id |-> "glarusmore" \o ToString(idcounter), more |-> TRUE,
     provider |-> "glarus", category |-> category]

glarusAddsMore(group, limit) == limit >= 0 /\ Len(group.features) > limit

RECURSIVE glarusGroups(_, _, _, _, _)
glarusGroups(groups, i, limit, res, idcounter) ==
    IF i > Len(groups) THEN [threw |-> FALSE, groups |-> res]
    ELSE LET group == groups[i]
         IN  IF ~Has(group, "features") THEN Threw
             ELSE IF \E k \in 1..Len(group.features) : ~Has(group.features[k], "bbox") THEN Threw
             ELSE LET category == Get(group, "category")
                      items == [k \in 1..Len(group.features) |->
                                    glarusItem(group.features[k], category)]
                      more == glarusAddsMore(group, limit)
                      groupResult == [id |-> category,
                                      items |-> IF more
                                                THEN Append(items, glarusMoreItem(idcounter, category))
                                                ELSE items]
                  IN  glarusGroups(groups, i + 1, limit, Append(res, groupResult),
                                   IF more THEN idcounter + 1 ELSE idcounter)

glarusSearchResults(obj, reqId, limit) ==
    LET r == glarusGroups(ResultsOf(obj), 1, limit, <<>>, 0)
    IN  IF r.threw THEN Threw
        ELSE Returned(addSearchResults(r.groups, "glarus", reqId, "true"))

(***************************************************************************)
(* nominatim: one group per class, in the order the classes first appear.  *)
(* classes[k] is the class whose group is res[k].  A boundingbox holds     *)
(* numeric strings, modelled by the numbers parseFloat gives for them.     *)
(***************************************************************************)
nominatimItem(entry) ==
    LET b == entry.boundingbox
        bbox == <<b[3], b[1], b[4], b[2]>>
    IN  [id |-> Get(entry, "place_id"),
         bbox |-> bbox,
         x |-> Mid(bbox[1], bbox[3]),
         y |-> Mid(bbox[2], bbox[4]),
         crs |-> "EPSG:4326", provider |-> "nominatim"]

ClassIndex(classes, class) ==
    IF \E k \in 1..Len(classes) : classes[k] = class
    THEN CHOOSE k \in 1..Len(classes) : classes[k] = class
    ELSE 0

RECURSIVE nominatimGroups(_, _, _, _)
nominatimGroups(entries, i, res, classes) ==
    IF i > Len(entries) THEN [threw |-> FALSE, groups |-> res]
    ELSE LET entry == entries[i]
         IN  IF \E f \in {"class", "display_name", "address", "boundingbox"} : ~Has(entry, f)
             THEN Threw
             ELSE LET known == ClassIndex(classes, entry.class) # 0
                      res1 == IF known THEN res
                              ELSE Append(res, [id |-> "nominatimgroup" \o ToString(Len(classes)),
                                                items |-> <<>>])
                      classes1 == IF known THEN classes ELSE Append(classes, entry.class)
                  IN  nominatimGroups(entries, i + 1,
                          PushItem(res1, ClassIndex(classes1, entry.class), nominatimItem(entry)),
                          classes1)

nominatimSearchResults(obj, reqId) ==
    LET r == nominatimGroups(obj, 1, <<>>, <<>>)
    IN  IF r.threw THEN Threw
        ELSE Returned(addSearchResults(r.groups, "nominatim", reqId, "true"))

(***************************************************************************)
(* Providers made by searchProviderFactory: the response data is delivered *)
(* as it came, and addSearchResults gets no second argument.               *)
(***************************************************************************)
parametrizedSearchResults(cfg, data, reqId) ==
    addSearchResults(data, cfg.key, reqId, Undefined)

(***************************************************************************)
(* layers: a sublayer is [type, num], its name type \o num.                *)
(***************************************************************************)
bigRingCount == 9
bikingCount == 20
hikingCount == 17
natureCount == 16

TwoDigits(i) == IF i < 10 THEN "0" \o ToString(i) ELSE ToString(i)

createLayerSearchSublayers(count, type) ==
    [index \in 1..count |-> [type |-> type, num |-> TwoDigits(index)]]

LowerCase(type) ==
    CASE type = "G" -> "g" [] type = "B" -> "b" [] type = "E" -> "e"
      [] type = "N" -> "n" [] type = "GAB" -> "gab" [] type = "GAS" -> "gas"

LayerItem(sublayer) ==
    [type |-> "THEMELAYER",
     id |-> LowerCase(sublayer.type) \o sublayer.num,
     layer |-> [sublayers |-> <<sublayer>>]]

\* the argument is an array of sublayers
createLayerSearchResultOfArray(sublayers) ==
    [id |-> "layers", items |-> [k \in 1..Len(sublayers) |-> LayerItem(sublayers[k])]]

\* the argument is one sublayer
createLayerSearchResult(sublayer) ==
    [id |-> "layers", items |-> <<LayerItem(sublayer)>>]

natureSublayers ==
    createLayerSearchSublayers(natureCount, "N")
        \o <<[type |-> "N", num |-> "17_1"], [type |-> "N", num |-> "18_2"]>>

\* the branches of the lookup that the texts of the model can take
layerResults(text) ==
    LET bigRingSublayers == createLayerSearchSublayers(bigRingCount, "G")
        bikingSublayers == createLayerSearchSublayers(bikingCount, "B")
        hikingSublayers == createLayerSearchSublayers(hikingCount, "E")
    IN  IF text \in {<<"B">>, <<"b">>}
        THEN <<createLayerSearchResultOfArray(bikingSublayers)>>
        ELSE IF text \in {<<"B", "2">>, <<"b", "2">>}
        THEN <<createLayerSearchResultOfArray(<<bikingSublayers[2], bikingSublayers[20]>>)>>
        ELSE IF text \in {<<"E", "1", "7">>, <<"e", "1", "7">>}
        THEN <<createLayerSearchResult(hikingSublayers[17])>>
        ELSE IF text \in {<<"G">>, <<"G", "0">>, <<"g">>, <<"g", "0">>}
        THEN <<createLayerSearchResultOfArray(bigRingSublayers)>>
        ELSE IF text \in {<<"G", "1">>, <<"G", "0", "1">>, <<"g", "1">>, <<"g", "0", "1">>}
        THEN <<createLayerSearchResult(bigRingSublayers[1])>>
        ELSE IF text \in {<<"g", "a", "b">>, <<"G", "A", "B">>}
        THEN <<createLayerSearchResult([type |-> "GAB", num |-> ""])>>
        ELSE IF text \in {<<"n", "t">>, <<"N", "T">>}
        THEN <<createLayerSearchResultOfArray(SubSeq(natureSublayers, Len(natureSublayers) - 1,
                                                     Len(natureSublayers)))>>
        ELSE <<>>

layerSearch(text, reqId) ==
    addSearchResults(layerResults(text), "layers", reqId, "true")

(***************************************************************************)
(* Completion of the network calls.  An outcome is [rejected |-> TRUE] or  *)
(* [rejected |-> FALSE, data |-> response.data]; the value is the sequence *)
(* of actions the handlers dispatch.  A promise chain without catch drops  *)
(* a rejection and an exception of its then-handler.                       *)
(***************************************************************************)
Rejected == [rejected |-> TRUE]

\* the object {}: it has no field
EmptyObject == <<>>

Resolved(data) == [rejected |-> FALSE, data |-> data]

ThenOnly(outcome, normalized) ==
    IF outcome.rejected \/ normalized.threw THEN <<>> ELSE <<normalized.action>>

geoAdminLocationSearch(outcome, reqId) ==
    ThenOnly(outcome, IF outcome.rejected THEN Threw
                      ELSE geoAdminLocationSearchResults(outcome.data, reqId))

usterSearch(outcome, reqId) ==
    ThenOnly(outcome, IF outcome.rejected THEN Threw
                      ELSE usterSearchResults(outcome.data, reqId))

wolfsburgSearch(outcome, reqId) ==
    ThenOnly(outcome, IF outcome.rejected THEN Threw
                      ELSE wolfsburgSearchResults(outcome.data, reqId))

nominatimSearch(outcome, reqId) ==
    ThenOnly(outcome, IF outcome.rejected THEN Threw
                      ELSE nominatimSearchResults(outcome.data, reqId))

\* then(...).catch(...): the catch handler runs on a rejection and on an
\* exception of the then-handler, and normalizes the empty object
glarusThenCatch(outcome, reqId, limit) ==
    LET normalized == IF outcome.rejected THEN Threw
                      ELSE glarusSearchResults(outcome.data, reqId, limit)
    IN  IF normalized.threw
        THEN <<glarusSearchResults(EmptyObject, reqId, limit).action>>
        ELSE <<normalized.action>>

\* variant: the delivery is tagged with the id that is current at completion
glarusSearchCurrentId(outcome, reqId) == glarusThenCatch(outcome, requestId, glarusLimit)

glarusSearch(outcome, reqId) == glarusThenCatch(outcome, reqId, glarusLimit)

\* variant: the category search is normalized with the limit of the search
glarusMoreResultsLimited(outcome, reqId) == glarusThenCatch(outcome, reqId, glarusLimit)

glarusMoreResults(outcome, reqId) == glarusThenCatch(outcome, reqId, NoLimit)

\* variant: the handler of a rejection also runs after the handler of a response
parametrizedSearchTwice(cfg, outcome, reqId) ==
    IF outcome.rejected
    THEN <<parametrizedSearchResults(cfg, <<>>, reqId)>>
    ELSE <<parametrizedSearchResults(cfg, outcome.data, reqId),
           parametrizedSearchResults(cfg, <<>>, reqId)>>

parametrizedSearch(cfg, outcome, reqId) ==
    IF outcome.rejected
    THEN <<parametrizedSearchResults(cfg, <<>>, reqId)>>
    ELSE <<parametrizedSearchResults(cfg, outcome.data, reqId)>>

(***************************************************************************)
(* The providers.                                                          *)
(***************************************************************************)
ParamCfg == [key |-> "themesearch"]

\* the registry in the order of the SearchProviders object, then the provider
\* that searchProviderFactory makes
SearchProviders ==
    <<"coordinates", "geoadmin", "uster", "wolfsburg", "glarus", "nominatim", "layers",
      ParamCfg.key>>

Immediate == {"coordinates", "layers"}

HasResultGeometry == {"uster", "wolfsburg", "glarus"}

HasMoreResults == {"glarus"}

GeometryCrs(provider) ==
    CASE provider = "uster" -> "EPSG:21781"
      [] provider = "wolfsburg" -> "EPSG:25832"
      [] provider = "glarus" -> "EPSG:2056"

(***************************************************************************)
(* The search session: request ids, staleness and the accumulator.  Each   *)
(* entry of the accumulator is a delivered group with the provider of the  *)
(* delivery and the request id of the invocation that delivered it.        *)
(***************************************************************************)
Entry(action, invocation, group) ==
    [provider |-> action.provider, reqId |-> invocation.reqId, group |-> group]

HasPriority(entry) == Has(entry.group, "priority")

\* variant: the lower priority is shown first
BeforeAscending(a, b) ==
    HasPriority(a) /\ (~HasPriority(b) \/ a.group.priority < b.group.priority)

\* entry a is shown before entry b because of its priority
Before(a, b) ==
    HasPriority(a) /\ (~HasPriority(b) \/ a.group.priority > b.group.priority)

\* variant: the groups are shown in the order they arrive
InsertEntryAtEnd(acc, entry) == Append(acc, entry)

\* ordered insertion: after every entry that does not come later by priority
InsertEntry(acc, entry) ==
    LET pos == CHOOSE k \in 0..Len(acc) :
                   /\ \A j \in 1..k : ~Before(entry, acc[j])
                   /\ (k = Len(acc) \/ Before(entry, acc[k + 1]))
    IN  SubSeq(acc, 1, pos) \o <<entry>> \o SubSeq(acc, pos + 1, Len(acc))

RECURSIVE MergeGroups(_, _, _, _)
MergeGroups(acc, action, invocation, i) ==
    IF i > Len(action.data) THEN acc
    ELSE MergeGroups(InsertEntry(acc, Entry(action, invocation, action.data[i])),
                     action, invocation, i + 1)

\* the entry that a group of a replacing delivery takes the place of, 0 if none
PriorIndex(acc, provider, group) ==
    IF \E k \in 1..Len(acc) : acc[k].provider = provider /\ acc[k].group.id = group.id
    THEN CHOOSE k \in 1..Len(acc) : acc[k].provider = provider /\ acc[k].group.id = group.id
    ELSE 0

RECURSIVE ReplaceGroups(_, _, _, _)
ReplaceGroups(acc, action, invocation, i) ==
    IF i > Len(action.data) THEN acc
    ELSE LET group == action.data[i]
             k == PriorIndex(acc, action.provider, group)
             without == IF k = 0 THEN acc
                        ELSE SubSeq(acc, 1, k - 1) \o SubSeq(acc, k + 1, Len(acc))
         IN  ReplaceGroups(InsertEntry(without, Entry(action, invocation, group)),
                           action, invocation, i + 1)

IsStale(current, action) == action.reqId # current

\* what a delivery makes of the accumulator
Deliver(current, acc, action, invocation) ==
    IF IsStale(current, action) THEN acc
    ELSE IF action.incremental = "true" THEN MergeGroups(acc, action, invocation, 1)
    ELSE ReplaceGroups(acc, action, invocation, 1)

RECURSIVE DeliverAll(_, _, _, _, _)
DeliverAll(current, acc, actions, invocation, i) ==
    IF i > Len(actions) THEN acc
    ELSE DeliverAll(current, Deliver(current, acc, actions[i], invocation),
                    actions, invocation, i + 1)

\* variant: the id of the new request is the id of the request before it
NextRequestIdReused(current) == IF current = 0 THEN 1 ELSE current

NextRequestId(current) == current + 1

Invocation(provider, kind, reqId) ==
    [provider |-> provider, kind |-> kind, reqId |-> reqId, category |-> Undefined]

Dispatched(action, invocation) == [action |-> action, invocation |-> invocation]

\* onSearch of a provider that answers before it returns
ImmediateSearch(provider, text, reqId, searchOptions) ==
    IF provider = "coordinates" THEN coordinatesSearch(text, reqId, searchOptions)
    ELSE layerSearch(text, reqId)

\* fan-out of one search over the available providers, in registry order
RECURSIVE FanOut(_, _, _, _, _, _)
FanOut(available, i, text, reqId, searchOptions, st) ==
    IF i > Len(SearchProviders) THEN st
    ELSE LET provider == SearchProviders[i]
             invocation == Invocation(provider, "search", reqId)
         IN  IF provider \notin available
             THEN FanOut(available, i + 1, text, reqId, searchOptions, st)
             ELSE IF provider \in Immediate
             THEN LET action == ImmediateSearch(provider, text, reqId, searchOptions)
                  IN  FanOut(available, i + 1, text, reqId, searchOptions,
                          [st EXCEPT
                              !.results = Deliver(reqId, @, action, invocation),
                              !.dispatched = Append(@, Dispatched(action, invocation))])
             ELSE FanOut(available, i + 1, text, reqId, searchOptions,
                          [st EXCEPT !.inflight = Append(@, invocation)])

(***************************************************************************)
(* Inputs: the texts and options of a search, the sets of providers a      *)
(* theme makes available, and the responses of the services.               *)
(***************************************************************************)
SearchTexts ==
    {<<"4", "6", ".", "5", " ", "6", ".", "6">>, <<"B", "2">>}

SearchOptions == {[displaycrs |-> "EPSG:2056"], EmptyObject}

AvailableSets ==
    {{"coordinates", "glarus", ParamCfg.key}, {"geoadmin", "layers"}, {"nominatim"},
     {"uster"}, {"wolfsburg"}}

NullEntry == [null |-> TRUE]

GeoEntry(id, origin, lon, lat) ==
    [id |-> id, attrs |-> [origin |-> origin, lon |-> lon, lat |-> lat]]

GeoBoxEntry(id, origin, lon, lat, wgs) ==
    [id |-> id,
     attrs |-> [origin |-> origin, lon |-> lon, lat |-> lat,
                geom_st_box2d |-> [match |-> TRUE, box |-> <<600000, 200000, 600100, 200100>>,
                                   wgs |-> wgs]]]

GeoAdminPayloads ==
    {[results |-> <<GeoEntry("g1", "gg25", 8, 46),
                    GeoBoxEntry("g2", "kantone", 6, 44, <<4, 42, 8, 46>>),
                    GeoEntry("g3", "gg25", 10, 48)>>],
     [results |-> <<GeoEntry("g1", "gg25", 8, 46), [id |-> "g2"],
                    GeoEntry("g3", "gg25", 10, 48)>>],
     [results |-> <<GeoEntry("g1", "gg25", 8, 46), GeoEntry("g1", "gg25", 8, 46)>>],
     [results |-> <<GeoBoxEntry("g4", "kantone", 6, 44, <<8, 46, 10, 48>>)>>],
     [results |-> <<GeoEntry("g1", "gg25", 8, 46),
                    [id |-> "g5",
                     attrs |-> [origin |-> "gg25", lon |-> 6, lat |-> 44,
                                geom_st_box2d |-> [match |-> FALSE]]],
                    GeoEntry("g3", "gg25", 10, 48)>>],
     EmptyObject}

FlatHeader(displaytext) == [displaytext |-> displaytext]

FlatEntry(id, bbox) == [id |-> id, displaytext |-> id, searchtable |-> "table", bbox |-> bbox]

FlatPayloads ==
    {[results |-> <<FlatHeader("A"), FlatEntry("a1", <<0, 0, 4, 4>>),
                    FlatEntry("a2", <<2, 2, 6, 8>>), FlatHeader("B"),
                    FlatEntry("b1", <<10, 10, 12, 12>>)>>],
     [results |-> <<FlatHeader("A"), FlatEntry("a1", <<0, 0, 4, 4>>), NullEntry,
                    FlatEntry("a2", <<2, 2, 6, 8>>)>>]}

Features(prefix, n) ==
    [k \in 1..n |-> [id |-> prefix \o ToString(k), name |-> prefix,
                     bbox |-> <<2 * k, 0, 2 * k + 2, 2>>]]

GlarusPayloads ==
    {[results |-> <<[category |-> "streets", features |-> Features("s", glarusLimit + 1)],
                    [category |-> "parcels", features |-> Features("p", glarusLimit)]>>],
     [results |-> <<[category |-> "streets", features |-> Features("s", 2)],
                    [category |-> "broken"],
                    [category |-> "parcels", features |-> Features("p", 2)]>>]}

\* the answer of the category search: every feature of the category
GlarusMorePayloads(category) ==
    {[results |-> <<[category |-> category, features |-> Features("s", glarusLimit + 3)]>>]}

NominatimEntry(id, class, boundingbox) ==
    [place_id |-> id, class |-> class, display_name |-> id, address |-> [city |-> "c"],
     boundingbox |-> boundingbox]

NominatimPayloads ==
    {<<NominatimEntry("n1", "place", <<46, 48, 6, 8>>),
       NominatimEntry("n2", "highway", <<40, 42, 2, 4>>),
       NominatimEntry("n3", "place", <<44, 46, 8, 10>>)>>,
     <<NominatimEntry("n1", "place", <<46, 48, 6, 8>>),
       [place_id |-> "n2", class |-> "highway", display_name |-> "n2",
        boundingbox |-> <<40, 42, 2, 4>>],
       NominatimEntry("n3", "place", <<44, 46, 8, 10>>)>>}

\* the second response names its group as the glarus service names a category
ParamPayloads ==
    {<<[id |-> "themegroup", priority |-> 5,
        items |-> <<[id |-> "t1", x |-> 2, y |-> 2, crs |-> "EPSG:2056",
                     bbox |-> <<0, 0, 4, 4>>, provider |-> ParamCfg.key]>>]>>,
     <<[id |-> "streets",
        items |-> <<[id |-> "t2", x |-> 2, y |-> 2, crs |-> "EPSG:2056",
                     bbox |-> <<0, 0, 4, 4>>, provider |-> ParamCfg.key]>>]>>}

Outcomes(payloads) == {Rejected} \cup {Resolved(data) : data \in payloads}

GeometryOutcomes == {Rejected, Resolved("POLYGON")}

(***************************************************************************)
(* Geometry resolvers: the value is the sequence of callback invocations.  *)
(***************************************************************************)
CallbackArgs(resultItem, data, crs) == [item |-> resultItem, geometry |-> data, crs |-> crs]

\* variant: the callback is left out when the item is no longer shown
usterResultGeometryIfShown(resultItem, outcome) ==
    IF outcome.rejected
          \/ \A k \in 1..Len(results) :
                \A j \in 1..Len(results[k].group.items) : results[k].group.items[j] # resultItem
    THEN <<>>
    ELSE <<CallbackArgs(resultItem, outcome.data, "EPSG:21781")>>

usterResultGeometry(resultItem, outcome) ==
    IF outcome.rejected THEN <<>>
    ELSE <<CallbackArgs(resultItem, outcome.data, "EPSG:21781")>>

wolfsburgResultGeometry(resultItem, outcome) ==
    IF outcome.rejected THEN <<>>
    ELSE <<CallbackArgs(resultItem, outcome.data, "EPSG:25832")>>

glarusResultGeometry(resultItem, outcome) ==
    IF outcome.rejected THEN <<>>
    ELSE <<CallbackArgs(resultItem, outcome.data, "EPSG:2056")>>

getResultGeometry(provider, resultItem, outcome) ==
    CASE provider = "uster" -> usterResultGeometry(resultItem, outcome)
      [] provider = "wolfsburg" -> wolfsburgResultGeometry(resultItem, outcome)
      [] provider = "glarus" -> glarusResultGeometry(resultItem, outcome)

(***************************************************************************)
(* The state machine of one search session.                                *)
(***************************************************************************)
NotParsed == [done |-> FALSE]

NotMerged == [done |-> FALSE]

Init ==
    /\ requestId = 0
    /\ results = <<>>
    /\ inflight = <<>>
    /\ dispatched = <<>>
    /\ settled = <<>>
    /\ geometry = <<>>
    /\ resolved = <<>>
    /\ mores = 0
    /\ parsed = NotParsed
    /\ merged = NotMerged

Remove(seq, k) == SubSeq(seq, 1, k - 1) \o SubSeq(seq, k + 1, Len(seq))

\* search(text, options): a new current request, an empty accumulator, fan-out
Search(text, searchOptions, available) ==
    /\ requestId < MaxRequests
    /\ LET reqId == NextRequestId(requestId)
           st == FanOut(available, 1, text, reqId, searchOptions,
                        [results |-> <<>>, inflight |-> inflight, dispatched |-> <<>>])
       IN  /\ requestId' = reqId
           /\ results' = st.results
           /\ inflight' = st.inflight
           /\ dispatched' = st.dispatched
    /\ settled' = <<>>
    /\ resolved' = <<>>
    /\ UNCHANGED <<geometry, mores, parsed, merged>>

StartSearch ==
    \E text \in SearchTexts, searchOptions \in SearchOptions, available \in AvailableSets :
        Search(text, searchOptions, available)

Pending(provider, kind) ==
    {c \in 1..Len(inflight) : inflight[c].provider = provider /\ inflight[c].kind = kind}

\* the network call of invocation c completes with the outcome and its handlers
\* dispatch the actions
Settle(c, outcome, actions) ==
    /\ results' = DeliverAll(requestId, results, actions, inflight[c], 1)
    /\ inflight' = Remove(inflight, c)
    /\ dispatched' = [k \in 1..Len(actions) |-> Dispatched(actions[k], inflight[c])]
    /\ settled' = <<[invocation |-> inflight[c], outcome |-> outcome]>>
    /\ resolved' = <<>>
    /\ UNCHANGED <<requestId, geometry, mores, parsed, merged>>

GeoAdminResponse ==
    \E c \in Pending("geoadmin", "search"), outcome \in Outcomes(GeoAdminPayloads) :
        Settle(c, outcome, geoAdminLocationSearch(outcome, inflight[c].reqId))

UsterResponse ==
    \E c \in Pending("uster", "search"), outcome \in Outcomes(FlatPayloads) :
        Settle(c, outcome, usterSearch(outcome, inflight[c].reqId))

WolfsburgResponse ==
    \E c \in Pending("wolfsburg", "search"), outcome \in Outcomes(FlatPayloads) :
        Settle(c, outcome, wolfsburgSearch(outcome, inflight[c].reqId))

GlarusResponse ==
    \E c \in Pending("glarus", "search"), outcome \in Outcomes(GlarusPayloads) :
        Settle(c, outcome, glarusSearch(outcome, inflight[c].reqId))

NominatimResponse ==
    \E c \in Pending("nominatim", "search"), outcome \in Outcomes(NominatimPayloads) :
        Settle(c, outcome, nominatimSearch(outcome, inflight[c].reqId))

ParamResponse ==
    \E c \in Pending(ParamCfg.key, "search"), outcome \in Outcomes(ParamPayloads) :
        Settle(c, outcome, parametrizedSearch(ParamCfg, outcome, inflight[c].reqId))

IsMore(item) == Has(item, "more") /\ item.more

\* the "more" item of a shown group is selected: getMoreResults of its provider
\* is invoked with the current request id
SearchMore ==
    /\ mores < MaxMore
    /\ mores' = mores + 1
    /\ \E k \in 1..Len(results) : \E j \in 1..Len(results[k].group.items) :
          LET moreItem == results[k].group.items[j]
          IN  /\ IsMore(moreItem)
              /\ Has(moreItem, "provider")
              /\ moreItem.provider \in HasMoreResults
              /\ inflight' = Append(inflight,
                     [Invocation(moreItem.provider, "more", requestId)
                         EXCEPT !.category = moreItem.category])
    /\ dispatched' = <<>>
    /\ settled' = <<>>
    /\ resolved' = <<>>
    /\ UNCHANGED <<requestId, results, geometry, parsed, merged>>

GlarusMoreResponse ==
    \E c \in Pending("glarus", "more") :
        \E outcome \in Outcomes(GlarusMorePayloads(inflight[c].category)) :
            Settle(c, outcome, glarusMoreResults(outcome, inflight[c].reqId))

\* a shown place item of a provider with getResultGeometry is selected; the
\* first item of a group stands for the items of the group
SelectResult ==
    /\ Len(geometry) < MaxGeometry
    /\ \E k \in 1..Len(results) :
          /\ Len(results[k].group.items) > 0
          /\ LET resultItem == results[k].group.items[1]
             IN  /\ ~IsMore(resultItem)
                 /\ Has(resultItem, "provider")
                 /\ resultItem.provider \in HasResultGeometry
                 /\ geometry' = Append(geometry,
                        [provider |-> resultItem.provider, item |-> resultItem])
    /\ dispatched' = <<>>
    /\ settled' = <<>>
    /\ resolved' = <<>>
    /\ UNCHANGED <<requestId, results, inflight, mores, parsed, merged>>

\* the geometry call of invocation g completes
GeometryResponse ==
    /\ \E g \in 1..Len(geometry), outcome \in GeometryOutcomes :
          /\ geometry' = Remove(geometry, g)
          /\ resolved' = <<[provider |-> geometry[g].provider, item |-> geometry[g].item,
                            outcome |-> outcome,
                            callbacks |-> getResultGeometry(geometry[g].provider,
                                                            geometry[g].item, outcome)]>>
    /\ dispatched' = <<>>
    /\ settled' = <<>>
    /\ UNCHANGED <<requestId, results, inflight, mores, parsed, merged>>

\* a search, or the completion of the network call of an onSearch invocation
SearchStep ==
    \/ StartSearch
    \/ GeoAdminResponse
    \/ UsterResponse
    \/ WolfsburgResponse
    \/ GlarusResponse
    \/ NominatimResponse
    \/ ParamResponse

\* searching and asking for more results
Next ==
    \/ SearchStep
    \/ SearchMore
    \/ GlarusMoreResponse

Spec == Init /\ [][Next]_vars

\* searching and resolving geometries
NextGeometry ==
    \/ SearchStep
    \/ SelectResult
    \/ GeometryResponse

SpecGeometry == Init /\ [][NextGeometry]_vars

(***************************************************************************)
(* coordinatesSearch on its own, over every text of the alphabet up to     *)
(* MaxTextLen characters and the texts of the documented examples.         *)
(***************************************************************************)
Alphabet == {"1", "9", "0", " ", ",", "-", "."}

ExampleTexts ==
    {<<"4", "6", ".", "5", " ", "6", ".", "6">>, <<"2", "0", "0", " ", "6", ".", "6">>,
     <<"5", " ", "5">>}

CoordTexts == UNION {[1..n -> Alphabet] : n \in 0..MaxTextLen} \cup ExampleTexts

CoordInit ==
    /\ requestId = 0
    /\ results = <<>>
    /\ inflight = <<>>
    /\ dispatched = <<>>
    /\ settled = <<>>
    /\ geometry = <<>>
    /\ resolved = <<>>
    /\ mores = 0
    /\ parsed \in {[done |-> FALSE, text |-> text, searchOptions |-> searchOptions] :
                      text \in CoordTexts, searchOptions \in SearchOptions}
    /\ merged = NotMerged

CoordSearch ==
    /\ ~parsed.done
    /\ parsed' = [done |-> TRUE, text |-> parsed.text, searchOptions |-> parsed.searchOptions,
                  action |-> coordinatesSearch(parsed.text, 1, parsed.searchOptions)]
    /\ UNCHANGED <<requestId, results, inflight, dispatched, settled, geometry, resolved, mores,
                   merged>>

CoordNext == CoordSearch

SpecCoord == CoordInit /\ [][CoordNext]_vars

(***************************************************************************)
(* The merge on its own: two deliveries of two providers for one request,  *)
(* merged into an empty accumulator in both arrival orders.  A delivery is *)
(* one that the code produces (no group carries a priority) or the         *)
(* response data of a parametrized provider, whose groups may carry one.   *)
(***************************************************************************)
MaxGroups == 2

\* 0 stands for a group without priority
Priorities == {0, 2, 5}

PriorityGroup(id, priority) ==
    IF priority = 0 THEN [id |-> id, items |-> <<>>]
    ELSE [id |-> id, priority |-> priority, items |-> <<>>]

GroupLists(key) ==
    UNION {{[k \in 1..n |-> PriorityGroup(key \o ToString(k), priorities[k])] :
               priorities \in [1..n -> Priorities]} : n \in 1..MaxGroups}

OtherCfg == [key |-> "othersearch"]

DeliveriesA ==
    {parametrizedSearchResults(ParamCfg, data, 1) : data \in GroupLists(ParamCfg.key)}
        \cup {coordinatesSearch(<<"5", " ", "5">>, 1, EmptyObject)}

DeliveriesB ==
    {parametrizedSearchResults(OtherCfg, data, 1) : data \in GroupLists(OtherCfg.key)}
        \cup {usterSearchResults(data, 1).action :
                 data \in {d \in FlatPayloads : ~usterSearchResults(d, 1).threw}}

MergeInit ==
    /\ requestId = 0
    /\ results = <<>>
    /\ inflight = <<>>
    /\ dispatched = <<>>
    /\ settled = <<>>
    /\ geometry = <<>>
    /\ resolved = <<>>
    /\ mores = 0
    /\ parsed = NotParsed
    /\ merged \in {[done |-> FALSE, a |-> a, b |-> b] : a \in DeliveriesA, b \in DeliveriesB}

\* the accumulator of request 1 after the first and then the second delivery
MergedInOrder(first, second) ==
    MergeGroups(MergeGroups(<<>>, first, Invocation(first.provider, "search", 1), 1),
                second, Invocation(second.provider, "search", 1), 1)

MergeBoth ==
    /\ ~merged.done
    /\ merged' = [done |-> TRUE, a |-> merged.a, b |-> merged.b,
                  ab |-> MergedInOrder(merged.a, merged.b),
                  ba |-> MergedInOrder(merged.b, merged.a)]
    /\ UNCHANGED <<requestId, results, inflight, dispatched, settled, geometry, resolved, mores,
                   parsed>>

MergeNext == MergeBoth

SpecMerge == MergeInit /\ [][MergeNext]_vars

(***************************************************************************)
(* Properties.                                                             *)
(***************************************************************************)
Range(seq) == {seq[k] : k \in 1..Len(seq)}

\* C1: a delivery whose request id is not the current one is dropped without
\* changing the accumulator: after every step each shown group comes from an
\* invocation of the current request, and a step whose deliveries are all
\* stale leaves the accumulator as it was.
C1_OnlyLatestVisible ==
    [][/\ \A entry \in Range(results') : entry.reqId = requestId'
       /\ (/\ dispatched' # <<>>
           /\ \A d \in Range(dispatched') : d.invocation.reqId # requestId')
          => results' = results]_vars

\* a stale delivery that carries groups arrives while groups of the current
\* request are shown
C1_Witness ==
    /\ Len(results) > 0
    /\ \E d \in Range(dispatched) :
          d.invocation.reqId < requestId /\ Len(d.action.data) > 0

\* the step is a call of search: it made an onSearch invocation
IsSearchCall ==
    \/ /\ Len(inflight') > Len(inflight)
       /\ inflight'[Len(inflight')].kind = "search"
    \/ \E d \in Range(dispatched') : d.invocation.provider \in Immediate

\* C2: every call of search makes a request id current that is greater than
\* every id before it, every invocation it makes carries that id, and the
\* current id never goes back to an earlier one.
C2_FreshRequestId ==
    [][/\ requestId' >= requestId
       /\ IsSearchCall =>
             /\ requestId' > requestId
             /\ \A d \in Range(dispatched') : d.invocation.reqId = requestId'
             /\ \A c \in (Len(inflight) + 1)..Len(inflight') :
                   inflight'[c].reqId = requestId']_vars

\* a second search has been called while a call of the first is still open
C2_Witness ==
    /\ requestId = 2
    /\ \E c \in 1..Len(inflight) : inflight[c].reqId = 1
    /\ \E c \in 1..Len(inflight) : inflight[c].reqId = 2

\* the payload handling of a provider raises an exception on this response data
HandlingThrows(provider, data) ==
    CASE provider = "geoadmin" -> geoAdminLocationSearchResults(data, 0).threw
      [] provider = "uster" -> usterSearchResults(data, 0).threw
      [] provider = "wolfsburg" -> wolfsburgSearchResults(data, 0).threw
      [] provider = "glarus" -> glarusSearchResults(data, 0, glarusLimit).threw
      [] provider = "nominatim" -> nominatimSearchResults(data, 0).threw
      [] OTHER -> FALSE

\* the call rejected, or the handling of its payload threw
Failed(s) == s.outcome.rejected \/ HandlingThrows(s.invocation.provider, s.outcome.data)

\* the shown groups that other providers delivered
OthersOf(acc, provider) == SelectSeq(acc, LAMBDA entry : entry.provider # provider)

\* C3: when the network call of a provider rejects or its payload handling
\* throws, the provider delivers exactly one empty group list for the request
\* id it was invoked with, and the groups of the other providers stay as they
\* were.
C3_FailureGivesEmptyDelivery ==
    [][\A s \in Range(settled') :
          (s.invocation.kind = "search" /\ Failed(s)) =>
             /\ Len(dispatched') = 1
             /\ dispatched'[1].action.data = <<>>
             /\ dispatched'[1].action.provider = s.invocation.provider
             /\ dispatched'[1].action.reqId = s.invocation.reqId
             /\ OthersOf(results', s.invocation.provider)
                   = OthersOf(results, s.invocation.provider)]_vars

\* the entries of a payload: the groups of glarus, the places of the others
Entries(provider, data) == IF provider = "nominatim" THEN data ELSE ResultsOf(data)

\* every field that the normalizer of the provider reads from the entry is there
WellFormed(provider, entry) ==
    CASE provider = "geoadmin" -> Has(entry, "attrs")
      [] provider \in {"uster", "wolfsburg"} -> ~Has(entry, "null")
      [] provider = "glarus" ->
            /\ Has(entry, "features")
            /\ \A k \in 1..Len(entry.features) : Has(entry.features[k], "bbox")
      [] provider = "nominatim" ->
            \A f \in {"class", "display_name", "address", "boundingbox"} : Has(entry, f)
      [] OTHER -> TRUE

\* what identifies the place of a well-formed entry: the bbox for uster and
\* wolfsburg (their item ids are counters), the id for the others
EntryKeys(provider, entry) ==
    CASE provider = "geoadmin" -> {entry.id}
      [] provider \in {"uster", "wolfsburg"} ->
            IF Has(entry, "bbox") THEN {entry.bbox} ELSE {}
      [] provider = "glarus" -> {entry.features[k].id : k \in 1..Len(entry.features)}
      [] provider = "nominatim" -> {entry.place_id}
      [] OTHER -> {}

WellFormedKeys(provider, data) ==
    UNION {EntryKeys(provider, entry) :
              entry \in {e \in Range(Entries(provider, data)) : WellFormed(provider, e)}}

ItemKey(provider, item) ==
    IF provider \in {"uster", "wolfsburg"} THEN Get(item, "bbox") ELSE item.id

DeliveredKeys(provider, deliveries) ==
    UNION {UNION {{ItemKey(provider, group.items[k]) : k \in 1..Len(group.items)} :
                     group \in Range(d.action.data)} :
              d \in Range(deliveries)}

\* C4: when a payload holds a malformed entry among well-formed ones, every
\* well-formed entry of the payload is an item of the delivered groups.
C4_MalformedEntrySkipped ==
    [][\A s \in Range(settled') :
          (/\ s.invocation.kind = "search"
           /\ ~s.outcome.rejected
           /\ \E entry \in Range(Entries(s.invocation.provider, s.outcome.data)) :
                 ~WellFormed(s.invocation.provider, entry)) =>
             WellFormedKeys(s.invocation.provider, s.outcome.data)
                \subseteq DeliveredKeys(s.invocation.provider, dispatched')]_vars

\* the shown groups of a provider and category, and the other shown groups
ShownFor(acc, provider, category) ==
    SelectSeq(acc, LAMBDA entry : entry.provider = provider /\ entry.group.id = category)

ShownBeside(acc, provider, category) ==
    SelectSeq(acc, LAMBDA entry : ~(entry.provider = provider /\ entry.group.id = category))

\* C5: a more-results response of the current request leaves exactly one shown
\* group for its provider and category, with the items of the response, and
\* leaves every other shown group as it was; a more-results response of a
\* request that is no longer current changes nothing.
C5_MoreReplacesOneGroup ==
    [][\A s \in Range(settled') :
          (s.invocation.kind = "more" /\ ~s.outcome.rejected) =>
             IF s.invocation.reqId # requestId THEN results' = results
             ELSE /\ Len(dispatched') = 1
                  /\ Len(dispatched'[1].action.data) = 1
                  /\ Len(ShownFor(results, s.invocation.provider, s.invocation.category)) = 1
                  /\ Len(ShownFor(results', s.invocation.provider, s.invocation.category)) = 1
                  /\ ShownFor(results', s.invocation.provider, s.invocation.category)[1].group.items
                        = dispatched'[1].action.data[1].items
                  /\ ShownBeside(results', s.invocation.provider, s.invocation.category)
                        = ShownBeside(results, s.invocation.provider, s.invocation.category)]_vars

\* C6: a delivery in answer to onSearch carries the flag true, a delivery in
\* answer to getMoreResults carries the flag false.
C6_IncrementalMatchesOperation ==
    \A d \in Range(dispatched) :
        /\ d.invocation.kind = "search" => d.action.incremental = "true"
        /\ d.invocation.kind = "more" => d.action.incremental = "false"

\* the candidates of a group as (x, y, crs), in order
Candidates(items) == [k \in 1..Len(items) |-> <<items[k].x, items[k].y, items[k].crs>>]

IsLon(v) == NumGeq(v, -180) /\ NumLeq(v, 180)

IsLat(v) == NumGeq(v, -90) /\ NumLeq(v, 90)

\* the candidates (a), (b), (c) for the numbers x, y
ExpectedCandidates(x, y, displaycrs) ==
    (IF displaycrs # "EPSG:4326" THEN <<<<x, y, displaycrs>>>> ELSE <<>>)
        \o (IF IsLon(x) /\ IsLat(y) THEN <<<<x, y, "EPSG:4326">>>> ELSE <<>>)
        \o (IF IsLat(x) /\ IsLon(y) /\ x # y THEN <<<<y, x, "EPSG:4326">>>> ELSE <<>>)

\* the number of candidates delivered for a text
CandidateCount(data) == IF data = <<>> THEN 0 ELSE Len(data[1].items)

ExampleCounts(text, displaycrs, data) ==
    /\ (displaycrs # "EPSG:4326" /\ text = <<"4", "6", ".", "5", " ", "6", ".", "6">>)
          => CandidateCount(data) = 3
    /\ (displaycrs # "EPSG:4326" /\ text = <<"2", "0", "0", " ", "6", ".", "6">>)
          => CandidateCount(data) = 1
    /\ (displaycrs # "EPSG:4326" /\ text = <<"5", " ", "5">>)
          => CandidateCount(data) = 2

OneGroupOf(data, expected) ==
    /\ Len(data) = 1
    /\ Candidates(data[1].items) = expected

CandidatesOrNoGroup(matches, displaycrs, data) ==
    IF ~Matched(matches) THEN data = <<>>
    ELSE IF ExpectedCandidates(Capture(matches, 1), Capture(matches, 2), displaycrs) = <<>>
    THEN data = <<>>
    ELSE OneGroupOf(data, ExpectedCandidates(Capture(matches, 1), Capture(matches, 2),
                                             displaycrs))

\* C7: for a text that matches the two-number pattern with the numbers x, y,
\* coordinatesSearch delivers one group whose items are, in this order, (a) the
\* pair in the display CRS iff that CRS is not geographic, (b) the pair as
\* lon/lat iff it is in range, (c) the swapped pair iff it is in range and
\* x # y, when at least one of the three applies, and delivers no group when
\* none applies; "46.5 6.6", "200 6.6" and "5 5" give 3, 1 and 2 items with a
\* non-geographic display CRS; a text that does not match gives no group.
C7_CandidatesOrNoGroup ==
    parsed.done =>
        /\ CandidatesOrNoGroup(MatchCoordinates(parsed.text), DisplayCrs(parsed.searchOptions),
                               parsed.action.data)
        /\ ExampleCounts(parsed.text, DisplayCrs(parsed.searchOptions), parsed.action.data)
        /\ parsed.action.provider = "coordinates"

\* "5 5" with a projected display CRS: the swapped pair is left out
C7_Witness ==
    /\ parsed.done
    /\ parsed.text = <<"5", " ", "5">>
    /\ DisplayCrs(parsed.searchOptions) = "EPSG:2056"
    /\ CandidateCount(parsed.action.data) = 2

AlwaysOneGroup(matches, displaycrs, data) ==
    IF ~Matched(matches) THEN data = <<>>
    ELSE OneGroupOf(data, ExpectedCandidates(Capture(matches, 1), Capture(matches, 2),
                                             displaycrs))

\* C7 as stated: every matching text gives one group with the items (a), (b),
\* (c), also when none of the three applies.
C7_AlwaysOneGroup ==
    parsed.done =>
        AlwaysOneGroup(MatchCoordinates(parsed.text), DisplayCrs(parsed.searchOptions),
                       parsed.action.data)

\* the items of a delivery
ItemsOf(action) ==
    UNION {Range(group.items) : group \in Range(action.data)}

NamesProvider == {"geoadmin", "uster", "wolfsburg", "glarus", "nominatim"}

\* C8: every item delivered by geoadmin, uster, wolfsburg, glarus or nominatim
\* carries the provider id the delivery is tagged with; the items of
\* coordinatesSearch and layerSearch carry no provider id.
C8_ProviderOfNetworkItems ==
    \A d \in Range(dispatched) : \A item \in ItemsOf(d.action) :
        /\ d.action.provider \in NamesProvider =>
              Has(item, "provider") /\ item.provider = d.action.provider
        /\ d.action.provider \in Immediate => ~Has(item, "provider")

\* uster has delivered items
C8_Witness ==
    \E d \in Range(dispatched) :
        d.action.provider = "uster" /\ ItemsOf(d.action) # {}

\* C8 as stated: every delivered item carries the provider id of its delivery.
C8_ProviderOfEveryItem ==
    \A d \in Range(dispatched) : \A item \in ItemsOf(d.action) :
        Has(item, "provider") /\ item.provider = d.action.provider

\* C9: the callback of a geometry resolution is invoked exactly once, whether
\* the fetch succeeds or fails, not within the resolver call, with the item
\* that was passed in, the geometry text and the CRS of the provider.
C9_CallbackExactlyOnce ==
    [][/\ Len(geometry') > Len(geometry) => resolved' = <<>>
       /\ \A r \in Range(resolved') :
             /\ Len(r.callbacks) = 1
             /\ r.callbacks[1].item = r.item
             /\ r.callbacks[1].crs = GeometryCrs(r.provider)
             /\ ~r.outcome.rejected => r.callbacks[1].geometry = r.outcome.data]_vars

\* C10: when a geometry fetch fails, something reaches the caller of the
\* resolution, no new fetch is made, and the shown groups stay as they were.
C10_FailureSignalled ==
    [][\A r \in Range(resolved') :
          r.outcome.rejected =>
             /\ Len(r.callbacks) > 0
             /\ Len(geometry') < Len(geometry)
             /\ results' = results]_vars

\* the item is among the shown items
IsShown(acc, item) == \E entry \in Range(acc) : item \in Range(entry.group.items)

\* C11: geometry resolution does not touch the search state: the resolver
\* call and the completion of its fetch make no delivery and leave the
\* current request id and the shown groups as they were, and whether the
\* callback is invoked depends on the fetch alone, not on whether the request
\* that produced the item is still current.
C11_GeometryLeavesSearchState ==
    [][/\ (Len(geometry') > Len(geometry) \/ resolved' # <<>>) =>
             /\ dispatched' = <<>>
             /\ requestId' = requestId
             /\ results' = results
             /\ inflight' = inflight
       /\ \A r \in Range(resolved') :
             ~r.outcome.rejected =>
                /\ Len(r.callbacks) = 1
                /\ r.callbacks[1].item = r.item]_vars

\* the geometry of an item arrives after a newer search has replaced the
\* groups the item was shown in
C11_Witness ==
    /\ requestId = 2
    /\ \E r \in Range(resolved) :
          /\ r.provider = "uster"
          /\ Len(r.callbacks) = 1
          /\ ~IsShown(results, r.item)

\* two entries that the priorities do not order
Tied(a, b) == ~Before(a, b) /\ ~Before(b, a)

\* no group of the one delivery ties with a group of the other
NoCrossTie(acc) ==
    \A i, j \in 1..Len(acc) : acc[i].provider # acc[j].provider => ~Tied(acc[i], acc[j])

\* C12: merging the deliveries of two providers for one request gives the
\* same groups in both arrival orders, and the same ordered list when no group
\* of the one provider ties in priority with a group of the other; groups that
\* tie (as all groups do that the code produces, which carry no priority) are
\* in arrival order.
C12_MergeOrderGivenNoTies ==
    merged.done =>
        /\ Range(merged.ab) = Range(merged.ba)
        /\ Len(merged.ab) = Len(merged.ba)
        /\ NoCrossTie(merged.ab) => merged.ab = merged.ba
        /\ \A i, j \in 1..Len(merged.ab) :
              (/\ i < j
               /\ Tied(merged.ab[i], merged.ab[j])
               /\ merged.ab[i].provider # merged.ab[j].provider)
                 => merged.ab[i].provider = merged.a.provider

\* two deliveries with two groups each and no tie across them
C12_Witness ==
    /\ merged.done
    /\ Len(merged.a.data) = 2
    /\ Len(merged.b.data) = 2
    /\ NoCrossTie(merged.ab)
    /\ merged.ab[1].provider # merged.ab[2].provider

\* C12 as stated: the merged list is the same in both arrival orders, also
\* when no group carries a priority.
C12_MergeOrderIndependent ==
    merged.done => merged.ab = merged.ba

\* the priority of a shown group, 0 for a group without priority
PriorityOf(entry) == IF HasPriority(entry) THEN entry.group.priority ELSE 0

PrioritiesOf(acc) == [k \in 1..Len(acc) |-> PriorityOf(acc[k])]

\* descending priority, no priority last
Descending(acc) ==
    \A i, j \in 1..Len(acc) :
        i < j => /\ HasPriority(acc[j]) => HasPriority(acc[i])
                 /\ PriorityOf(acc[i]) >= PriorityOf(acc[j])

\* the groups of two deliveries in the order they were inserted
Inserted(first, second) ==
    [k \in 1..Len(first.data) |-> [provider |-> first.provider, id |-> first.data[k].id]]
        \o [k \in 1..Len(second.data) |-> [provider |-> second.provider, id |-> second.data[k].id]]

InsertedAt(inserted, entry) ==
    CHOOSE k \in 1..Len(inserted) :
        inserted[k] = [provider |-> entry.provider, id |-> entry.group.id]

\* groups of equal priority are in the order they were inserted
TiesInInsertionOrder(acc, inserted) ==
    \A i, j \in 1..Len(acc) :
        (i < j /\ PriorityOf(acc[i]) = PriorityOf(acc[j]))
            => InsertedAt(inserted, acc[i]) < InsertedAt(inserted, acc[j])

\* the three groups of the two deliveries have the priorities 2, none and 5
IsPriorityExample(a, b) ==
    /\ Len(a.data) + Len(b.data) = 3
    /\ {PriorityOf(entry) : entry \in Range(MergedInOrder(a, b))} = {0, 2, 5}

\* C13: the merged group list is ordered by descending priority, every group
\* without a priority comes after every group with one, and groups of equal
\* priority are in insertion order; groups with the priorities 2, none and 5
\* are shown as 5, 2, none in either arrival order.
C13_OrderedByPriority ==
    /\ Descending(results)
    /\ merged.done =>
          /\ Descending(merged.ab)
          /\ Descending(merged.ba)
          /\ TiesInInsertionOrder(merged.ab, Inserted(merged.a, merged.b))
          /\ TiesInInsertionOrder(merged.ba, Inserted(merged.b, merged.a))
          /\ IsPriorityExample(merged.a, merged.b) =>
                /\ PrioritiesOf(merged.ab) = <<5, 2, 0>>
                /\ PrioritiesOf(merged.ba) = <<5, 2, 0>>

\* the groups with the priorities 2 and none arrive in one delivery, the group
\* with the priority 5 in the other
C13_Witness ==
    /\ merged.done
    /\ Len(merged.a.data) = 2
    /\ Has(merged.a.data[1], "priority") /\ merged.a.data[1].priority = 2
    /\ ~Has(merged.a.data[2], "priority")
    /\ Len(merged.b.data) = 1
    /\ Has(merged.b.data[1], "priority") /\ merged.b.data[1].priority = 5
    /\ PrioritiesOf(merged.ab) = <<5, 2, 0>>

\* the positions of the "more" items of a group
Markers(group) == {k \in 1..Len(group.items) : IsMore(group.items[k])}

\* a marker is the last item and names the provider and the category
MarkerIsLast(provider, group) ==
    \A k \in Markers(group) :
        /\ k = Len(group.items)
        /\ Has(group.items[k], "provider") /\ group.items[k].provider = provider
        /\ Has(group.items[k], "category") /\ group.items[k].category = group.id

\* the groups of a glarus delivery against the groups of the response
MarkersOfLimit(kind, payload, data) ==
    /\ Len(data) = Len(payload)
    /\ \A g \in 1..Len(data) :
          (Markers(data[g]) # {})
              <=> (kind = "search" /\ Len(payload[g].features) > glarusLimit)

\* C14: a delivered group carries a "more" item, as its last item and with
\* the provider id and the category of the group, exactly when its provider
\* searched with a limit and the response holds more results for the group
\* than the limit; the answer to a more-results request carries none.
C14_MoreMarker ==
    [][/\ \A d \in Range(dispatched') : \A group \in Range(d.action.data) :
             /\ MarkerIsLast(d.action.provider, group)
             /\ d.action.provider # "glarus" => Markers(group) = {}
             /\ d.invocation.kind = "more" => Markers(group) = {}
       /\ \A s \in Range(settled') :
             (s.invocation.provider = "glarus" /\ ~Failed(s)) =>
                /\ Len(dispatched') = 1
                /\ MarkersOfLimit(s.invocation.kind, ResultsOf(s.outcome.data),
                                  dispatched'[1].action.data)]_vars

\* a search delivery with a group over the limit and a group under it
C14_Witness ==
    \E d \in Range(dispatched) :
        /\ d.invocation.kind = "search"
        /\ \E group \in Range(d.action.data) : Markers(group) = {Len(group.items)}
        /\ \E group \in Range(d.action.data) : Len(group.items) > 0 /\ Markers(group) = {}

\* C15: no two groups delivered for one request share an id: the ids of the
\* groups of one delivery differ, and so do the ids of the groups shown
\* together, which the deliveries of the current request put there.
C15_GroupIdsUnique ==
    /\ \A d \in Range(dispatched) : \A i, j \in 1..Len(d.action.data) :
          i # j => d.action.data[i].id # d.action.data[j].id
    /\ \A i, j \in 1..Len(results) :
          i # j => results[i].group.id # results[j].group.id

\* C16: in every delivered group no two items have the same id.
C16_ItemIdsUnique ==
    \A d \in Range(dispatched) : \A group \in Range(d.action.data) :
        \A i, j \in 1..Len(group.items) :
            i # j => group.items[i].id # group.items[j].id

\* the place items of a delivery: the items with coordinates
PlaceItems(action) == {item \in ItemsOf(action) : Has(item, "bbox") /\ ~IsMore(item)}

\* C17: the point of every delivered place item lies within the bbox of the
\* item, and the bbox of a coordinate-search candidate is the point itself.
C17_PointWithinBBox ==
    \A d \in Range(dispatched) : \A item \in PlaceItems(d.action) :
        IF d.action.provider = "coordinates"
        THEN item.bbox = <<item.x, item.y, item.x, item.y>>
        ELSE /\ item.bbox[1] <= item.x /\ item.x <= item.bbox[3]
             /\ item.bbox[2] <= item.y /\ item.y <= item.bbox[4]

\* the entry has no bbox string, or one that is not of the form BOX(...)
NoExtent(entry) ==
    ~Has(entry.attrs, "geom_st_box2d") \/ ~entry.attrs.geom_st_box2d.match

DeliveredWithPoint(entry, items) ==
    \E item \in items :
        /\ item.id = entry.id
        /\ NoExtent(entry) =>
              item.bbox = <<entry.attrs.lon, entry.attrs.lat, entry.attrs.lon, entry.attrs.lat>>

\* C18: a geoadmin entry whose bbox string is absent or not of the form
\* BOX(xmin ymin,xmax ymax) is delivered as an item with the point bbox
\* [x, y, x, y], and the other entries of the response are delivered too.
C18_NoExtentGivesPointBBox ==
    [][\A s \in Range(settled') :
          (/\ s.invocation.provider = "geoadmin"
           /\ ~s.outcome.rejected
           /\ \A entry \in Range(ResultsOf(s.outcome.data)) : Has(entry, "attrs")) =>
             /\ Len(dispatched') = 1
             /\ \A entry \in Range(ResultsOf(s.outcome.data)) :
                   DeliveredWithPoint(entry, ItemsOf(dispatched'[1].action))]_vars

\* the providers of the invocations that the step opened
Opened == {inflight'[c].provider : c \in (Len(inflight) + 1)..Len(inflight')}

\* the deliveries are of different providers
OnePerProvider(deliveries) ==
    \A i, j \in 1..Len(deliveries) :
        i # j => deliveries[i].invocation.provider # deliveries[j].invocation.provider

\* C19: every onSearch or getMoreResults invocation makes at most one
\* delivery, with the request id it was invoked with and the id of its own
\* provider, however it interleaves with later invocations; coordinatesSearch
\* and layerSearch make exactly one delivery within the call of search, also
\* when they have no result.
C19_OneDeliveryPerInvocation ==
    [][/\ \A d \in Range(dispatched') :
             /\ d.action.reqId = d.invocation.reqId
             /\ d.action.provider = d.invocation.provider
       /\ OnePerProvider(dispatched')
       /\ settled' # <<>> =>
             /\ Len(dispatched') <= 1
             /\ Len(inflight') = Len(inflight) - 1
             /\ \A d \in Range(dispatched') : d.invocation = settled'[1].invocation
       /\ requestId' > requestId =>
             \E available \in AvailableSets :
                 /\ Opened = available \ Immediate
                 /\ {d.invocation.provider : d \in Range(dispatched')}
                       = available \cap Immediate
                 /\ \A d \in Range(dispatched') : d.invocation.reqId = requestId'
       /\ (settled' = <<>> /\ requestId' = requestId) => dispatched' = <<>>]_vars

\* a getMoreResults invocation of the first request delivers after the second
\* search has been called
C19_Witness ==
    /\ requestId = 2
    /\ \E d \in Range(dispatched) :
          /\ d.invocation.kind = "more"
          /\ d.action.reqId = 1
          /\ d.action.provider = "glarus"

====
